---- MODULE Spec2Model ----
(***************************************************************************)
(* simphony: the netlist data model (Netlist) and the circuit cascading    *)
(* engine (CircuitConnector._match_ports / connect_circuit) of             *)
(* simphony/core/netlist.py; the numeric literals of simphony.tools, and   *)
(* visit_ona / _dlist_insert and load_spi_from_file of                     *)
(* simphony/plugins/siepic/__init__.py.                                    *)
(*                                                                         *)
(* Conventions of the model                                                *)
(*  - A net id is an integer.  The source compares str(n) with the decimal *)
(*    strings of the net list; on decimal strings that comparison is       *)
(*    integer equality, and int(x) < 0 is the sign test.                   *)
(*  - A component is a record [nets, f]: its ordered net list and the      *)
(*    frequency vector its model returns (an abstract tag).                *)
(*  - A working entry (ComponentSimulation) is a record [nets, f, s] where *)
(*    s is the port dimension of the square S-matrix.                      *)
(*  - Python indices are 0-based; TLA+ sequences are 1-based.  ca, ia, cb, *)
(*    ib keep the 0-based values of the source and At/Del convert.         *)
(*  - connect_circuit reads netlist.component_list and netlist.net_count;  *)
(*    the model binds them to Netlist.components and Netlist.net_count.    *)
(*  - One action per loop iteration of connect_circuit; an exception ends  *)
(*    the cascade in pc = "error".                                         *)
(*  - A working entry also records in obj which list object its nets are:  *)
(*    0 for a list of its own, k for the very list of components[k].  A    *)
(*    del on an entry's nets mutates that object.                          *)
(*  - The module holds several specifications, one per part of the         *)
(*    program; each leaves the variables of the other parts unchanged.     *)
(***************************************************************************)
EXTENDS Integers, Sequences, FiniteSets, TLC

\* ---------------------------------------------------------------- bounds
MaxComps == 3       \* components a netlist may hold
MaxPorts == 4       \* port slots summed over the components of a netlist
MaxExt == 2         \* external net ids are -MaxExt .. -1
NumFreqs == 2       \* distinct frequency vectors a model may return
MaxLists == 2       \* list objects the Netlist objects and their caller create
MaxNetlists == 2    \* Netlist objects constructed
MaxAdds == 2        \* add_component calls on those objects
MaxLen == 4         \* characters of a typed numeric text
MaxOrder == 3       \* the largest k of an option name(k)=value
MaxOptions == 3     \* options of one .ona directive
MaxDepth == 3       \* load_spi_from_file calls nested through .INCLUDE
NumDirs == 3        \* directories of the file system

\* the internal ids: as many as a netlist of MaxPorts slots can pair up
MaxNet == MaxPorts \div 2 - 1
NetIds == (-MaxExt) .. MaxNet
Freqs == 1 .. NumFreqs

VARIABLES
    components,      \* Netlist.components: Seq([nets, f])
    pc,              \* "build" | "loop" | "returned" | "error"
    component_list,  \* connect_circuit's working entries: Seq([nets, f, s])
    n,               \* the loop variable of connect_circuit
    nc,              \* netlist.net_count as evaluated for range(0, net_count + 1)
    result,          \* <<>>: nothing / None; <<entries, externals>>: the returned pair
    heap,            \* the list objects: Seq([items, init, log])
    netlists,        \* the Netlist objects constructed: Seq([ref, fresh])
    text,            \* the argument of str2float: Seq of one-character strings
    spc,             \* "typing" | "returned" | "raised"
    sres,            \* the value str2float returned: [m, e] for m * 10^e
    params,          \* ona["params"] of visit_ona: name |-> [kind, scalar, list]
    olog,            \* the options visit_ona has processed, in textual order
    opc,             \* "visiting" | "returned" | "raised"
    cwd,             \* the process's current working directory
    cwd0,            \* os.getcwd() when the outermost load_spi_from_file was called
    stack,           \* the running load_spi_from_file calls: Seq([cwd, at])
    lpc              \* "idle" | "running" | "returned" | "raised"

cascade_vars == <<components, pc, component_list, n, nc, result>>
heap_vars == <<heap, netlists>>
str_vars == <<text, spc, sres>>
ona_vars == <<params, olog, opc>>
load_vars == <<cwd, cwd0, stack, lpc>>
parser_vars == <<ona_vars, load_vars>>
vars == <<cascade_vars, heap_vars, str_vars, parser_vars>>

\* what the cascade and the netlist it runs on never touch
outside_cascade == <<heap_vars, str_vars, parser_vars>>

\* ------------------------------------------------------------ list helpers
\* s[i] of Python (0-based)
At(s, i) == s[i + 1]

\* del s[i] of Python for 0 <= i < len(s)
Del(s, i) == [k \in 1 .. (Len(s) - 1) |-> IF k <= i THEN s[k] ELSE s[k + 1]]

\* del s[i] raises IndexError outside 0 .. len(s)-1 (negative indices never arise)
DelRaises(s, i) == i < 0 \/ i >= Len(s)

RECURSIVE Concat(_)
\* [x for sublist in ss for x in sublist]
Concat(ss) == IF ss = <<>> THEN <<>> ELSE Head(ss) \o Concat(Tail(ss))

SetMax(S) == CHOOSE x \in S : \A y \in S : y <= x

Range(s) == {s[k] : k \in 1 .. Len(s)}

\* [i for i, x in enumerate(s) if x == v], from position k on (0-based values)
RECURSIVE PositionsFrom(_, _, _)
PositionsFrom(s, v, k) ==
    IF k > Len(s) THEN <<>>
    ELSE (IF s[k] = v THEN <<k - 1>> ELSE <<>>) \o PositionsFrom(s, v, k + 1)

Positions(s, v) == PositionsFrom(s, v, 1)

\* ------------------------------------------------------------------ Netlist
\* Netlist.get_external_components with int(x) <= 0 as the test
get_external_components_le0(comps) ==
    SelectSeq(comps, LAMBDA c : \E k \in 1 .. Len(c.nets) : c.nets[k] <= 0)

\* Netlist.get_external_components
get_external_components(comps) ==
    SelectSeq(comps, LAMBDA c : \E k \in 1 .. Len(c.nets) : c.nets[k] < 0)

\* Netlist.net_count with max(nets, default) in place of max(nets)
net_count_default(comps) ==
    LET nets == Concat([k \in 1 .. Len(comps) |-> comps[k].nets])
    IN  IF nets = <<>> THEN <<0>> ELSE <<SetMax(Range(nets)) + 1>>

\* Netlist.net_count: <<>> when max() raises ValueError on an empty list,
\* otherwise <<max(nets) + 1>>
net_count(comps) ==
    LET nets == Concat([k \in 1 .. Len(comps) |-> comps[k].nets])
    IN  IF nets = <<>> THEN <<>> ELSE <<SetMax(Range(nets)) + 1>>

\* ComponentSimulation.__init__(component): deep copy of the nets, (f, s) from
\* the component's model; the matrix has one row and column per port
ComponentSimulation(component) ==
    [nets |-> component.nets, f |-> component.f, s |-> Len(component.nets)]

\* self.nets = component.nets: the entry holds the list of component k itself
share_nets(k) == k

\* self.nets = copy.deepcopy(component.nets): the list object the entry made
\* from component k holds; 0 is a list of its own
deepcopy_nets(k) == 0

\* the working entry made from component k of the netlist
Entry(comps, k) ==
    LET cs == ComponentSimulation(comps[k])
    IN  [nets |-> cs.nets, f |-> cs.f, s |-> cs.s, obj |-> deepcopy_nets(k)]

\* ------------------------------------------------------------ _match_ports
\* comp_idx before the doubling: the 0-based index of every entry whose net
\* list contains net_id, in list order (filtered_comps, then list.index of each)
RECURSIVE FilteredFrom(_, _, _)
FilteredFrom(net_id, cl, k) ==
    IF k > Len(cl) THEN <<>>
    ELSE (IF net_id \in Range(cl[k].nets) THEN <<k - 1>> ELSE <<>>)
         \o FilteredFrom(net_id, cl, k + 1)

\* if len(comp_idx) == 1: comp_idx += comp_idx
comp_idx(net_id, cl) ==
    LET ci == FilteredFrom(net_id, cl, 1)
    IN  IF Len(ci) = 1 THEN ci \o ci ELSE ci

\* net_idx with the doubling of comp_idx applied to it as well
net_idx_doubled(net_id, cl) ==
    LET f  == FilteredFrom(net_id, cl, 1)
        ni == Concat([k \in 1 .. Len(f) |-> Positions(At(cl, f[k]).nets, net_id)])
    IN  IF Len(ni) = 1 THEN ni \o ni ELSE ni

\* net_idx: for each filtered entry in order, every position holding net_id
net_idx(net_id, cl) ==
    LET f == FilteredFrom(net_id, cl, 1)
    IN  Concat([k \in 1 .. Len(f) |-> Positions(At(cl, f[k]).nets, net_id)])

\* the return statement indexes comp_idx[1] and net_idx[1]: IndexError when
\* either list is shorter than two
match_raises(net_id, cl) ==
    Len(comp_idx(net_id, cl)) < 2 \/ Len(net_idx(net_id, cl)) < 2

\* [comp_idx[0], net_idx[0], comp_idx[1], net_idx[1]], when it does not raise
match_ports(net_id, cl) ==
    LET c == comp_idx(net_id, cl)
        i == net_idx(net_id, cl)
    IN  [ca |-> c[1], ia |-> i[1], cb |-> c[2], ib |-> i[2]]

\* ------------------------------------------------- the two matrix reductions
\* rf.innerconnect_s(s, ia, ib): two ports of one matrix wired together
innerconnect_s(s, ia, ib) == s - 2

\* rf.connect_s(sa, ia, sb, ib): one port of each matrix wired together
connect_s(sa, ia, sb, ib) == sa + sb - 2

\* ------------------------------------------- one iteration of connect_circuit
\* the second deletion of the self-loop branch without the index shift
second_del_noshift(ia, ib) == ib

\* the index of the second deletion of the self-loop branch:
\* del nets[ib-1] if ia < ib else del nets[ib]
second_del(ia, ib) == IF ia < ib THEN ib - 1 ELSE ib

\* the branch ca == cb: [ok |-> the branch ran to its end, cl |-> the working
\* entries it leaves (those at the IndexError when ok is FALSE)]
self_loop_fold(cl, ca, ia, ib) ==
    LET e  == At(cl, ca)
        s1 == innerconnect_s(e.s, ia, ib)
        e1 == [e EXCEPT !.s = s1]
    IN  IF DelRaises(e.nets, ia)
        THEN [ok |-> FALSE, cl |-> [cl EXCEPT ![ca + 1] = e1]]
        ELSE LET n1 == Del(e.nets, ia)
                 j  == second_del(ia, ib)
             IN  IF DelRaises(n1, j)
                 THEN [ok |-> FALSE, cl |-> [cl EXCEPT ![ca + 1] = [e1 EXCEPT !.nets = n1]]]
                 ELSE [ok |-> TRUE,
                       cl |-> [cl EXCEPT ![ca + 1] = [e1 EXCEPT !.nets = Del(n1, j)]]]

\* combination.nets = component_list[ca].nets alone
combination_nets_first(na, nb) == na

\* combination.nets with the operands exchanged
combination_nets_swapped(na, nb) == nb \o na

\* combination.nets = component_list[ca].nets + component_list[cb].nets
combination_nets(na, nb) == na \o nb

\* the second deletion of the cross-merge branch without the index shift
second_entry_noshift(ca, cb) == cb

\* the index of the second deletion of the cross-merge branch:
\* del component_list[cb-1] if ca < cb else del component_list[cb]
second_entry_del(ca, cb) == IF ca < cb THEN cb - 1 ELSE cb

\* the branch ca != cb, in the same form
cross_merge_fold(cl, ca, ia, cb, ib) ==
    LET a  == At(cl, ca)
        b  == At(cl, cb)
        f  == At(cl, 0).f
        s  == connect_s(a.s, ia, b.s, ib)
    IN  IF DelRaises(a.nets, ia)
        THEN [ok |-> FALSE, cl |-> cl]
        ELSE LET na  == Del(a.nets, ia)
                 cl1 == [cl EXCEPT ![ca + 1] = [a EXCEPT !.nets = na]]
             IN  IF DelRaises(b.nets, ib)
                 THEN [ok |-> FALSE, cl |-> cl1]
                 ELSE LET nb   == Del(b.nets, ib)
                          comb == [nets |-> combination_nets(na, nb), f |-> f,
                                   s |-> s, obj |-> 0]
                          cl2  == Del(cl, ca)
                          cl3  == Del(cl2, second_entry_del(ca, cb))
                      IN  [ok |-> TRUE, cl |-> Append(cl3, comb)]

\* the body of the for loop for one n
iteration(net_id, cl) ==
    LET m == match_ports(net_id, cl)
    IN  IF match_raises(net_id, cl) THEN [ok |-> FALSE, cl |-> cl]
        ELSE IF m.ca = m.cb THEN self_loop_fold(cl, m.ca, m.ia, m.ib)
        ELSE cross_merge_fold(cl, m.ca, m.ia, m.cb, m.ib)

\* the netlist's components after the iteration: a del on the nets of an entry
\* that holds a component's own list (obj # 0) is a del on that component's nets
mutated_components(comps, net_id, cl) ==
    LET m == match_ports(net_id, cl)
        a == At(cl, m.ca)
        b == At(cl, m.cb)
    IN  IF match_raises(net_id, cl) THEN comps
        ELSE IF m.ca = m.cb
        THEN IF a.obj = 0 THEN comps
             ELSE [comps EXCEPT ![a.obj].nets =
                       At(self_loop_fold(cl, m.ca, m.ia, m.ib).cl, m.ca).nets]
        ELSE IF DelRaises(a.nets, m.ia) THEN comps
        ELSE LET c1 == IF a.obj = 0 THEN comps
                       ELSE [comps EXCEPT ![a.obj].nets = Del(a.nets, m.ia)]
             IN  IF DelRaises(b.nets, m.ib) \/ b.obj = 0 THEN c1
                 ELSE [c1 EXCEPT ![b.obj].nets = Del(b.nets, m.ib)]

\* ------------------------------------------------------------------ actions
TotalPorts(comps) == Len(Concat([k \in 1 .. Len(comps) |-> comps[k].nets]))

\* Frequency vectors are only ever compared for equality, so a netlist names
\* them in order of first appearance: the next component returns one already
\* seen or the first unseen one.
FreqsFor(comps) ==
    LET seen == {comps[k].f : k \in 1 .. Len(comps)}
    IN  {f \in Freqs : f <= Cardinality(seen) + 1}

\* the components that can be added to comps within the bounds
Component(comps) ==
    [nets : UNION {[1 .. l -> NetIds] : l \in 1 .. (MaxPorts - TotalPorts(comps))},
     f : FreqsFor(comps)]

\* no Netlist object of the heap specification exists
HeapIdle == heap = <<>> /\ netlists = <<>>

\* str2float has not been called
StrIdle == text = <<>> /\ spc = "typing" /\ sres = [m |-> 0, e |-> 0]

\* the netlist of the cascade is empty and connect_circuit has not been called
CascadeIdle ==
    /\ components = <<>>
    /\ pc = "build"
    /\ component_list = <<>>
    /\ n = 0
    /\ nc = 0
    /\ result = <<>>

\* the values of the parameter lists: None and the values of the options
None == "None"
Names == {"a", "b"}
Values == {"x", "y"}
Absent == [kind |-> "absent", scalar |-> None, list |-> <<>>]

\* visit_ona has built ona = {"definition": {}, "params": {}}
OnaIdle ==
    /\ params = [nm \in Names |-> Absent]
    /\ olog = <<>>
    /\ opc = "visiting"

Dirs == 1 .. NumDirs

\* load_spi_from_file has not been called; the process is in the first directory
LoadIdle ==
    /\ cwd = 1
    /\ cwd0 = 1
    /\ stack = <<>>
    /\ lpc = "idle"

Init == CascadeIdle /\ HeapIdle /\ StrIdle /\ OnaIdle /\ LoadIdle

\* Netlist.add_component
add_component(component) ==
    /\ pc = "build"
    /\ Len(components) < MaxComps
    /\ component \in Component(components)
    /\ components' = Append(components, component)
    /\ UNCHANGED <<pc, component_list, n, nc, result, outside_cascade>>

\* connect_circuit, line 141: reading net_count raises
ConnectRaises ==
    /\ pc = "build"
    /\ net_count(components) = <<>>
    /\ pc' = "error"
    /\ UNCHANGED <<components, component_list, n, nc, result, outside_cascade>>

\* connect_circuit, lines 141-142: net_count == 0, bare return
ConnectReturnNone ==
    /\ pc = "build"
    /\ net_count(components) = <<0>>
    /\ pc' = "returned"
    /\ UNCHANGED <<components, component_list, n, nc, result, outside_cascade>>

\* connect_circuit, lines 144-145: the working entries and the range
ConnectBegin ==
    /\ pc = "build"
    /\ net_count(components) # <<>>
    /\ net_count(components) # <<0>>
    /\ component_list' = [k \in 1 .. Len(components) |-> Entry(components, k)]
    /\ nc' = net_count(components)[1]
    /\ n' = 0
    /\ pc' = "loop"
    /\ UNCHANGED <<components, result, outside_cascade>>

InRange == pc = "loop" /\ n <= nc

\* _match_ports raises IndexError
MatchError ==
    /\ InRange
    /\ match_raises(n, component_list)
    /\ pc' = "error"
    /\ UNCHANGED <<components, component_list, n, nc, result, outside_cascade>>

\* lines 149-155 run to the end
SelfLoopFold ==
    /\ InRange
    /\ ~match_raises(n, component_list)
    /\ match_ports(n, component_list).ca = match_ports(n, component_list).cb
    /\ iteration(n, component_list).ok
    /\ component_list' = iteration(n, component_list).cl
    /\ n' = n + 1
    /\ components' = mutated_components(components, n, component_list)
    /\ UNCHANGED <<pc, nc, result, outside_cascade>>

\* lines 158-170 run to the end
CrossMergeFold ==
    /\ InRange
    /\ ~match_raises(n, component_list)
    /\ match_ports(n, component_list).ca # match_ports(n, component_list).cb
    /\ iteration(n, component_list).ok
    /\ component_list' = iteration(n, component_list).cl
    /\ n' = n + 1
    /\ components' = mutated_components(components, n, component_list)
    /\ UNCHANGED <<pc, nc, result, outside_cascade>>

\* a del inside a fold raises IndexError
FoldError ==
    /\ InRange
    /\ ~match_raises(n, component_list)
    /\ ~iteration(n, component_list).ok
    /\ component_list' = iteration(n, component_list).cl
    /\ pc' = "error"
    /\ components' = mutated_components(components, n, component_list)
    /\ UNCHANGED <<n, nc, result, outside_cascade>>

\* line 172: the range is exhausted
Return ==
    /\ pc = "loop"
    /\ n > nc
    /\ result' = <<(<<At(component_list, 0)>>), get_external_components(components)>>
    /\ pc' = "returned"
    /\ UNCHANGED <<components, component_list, n, nc, outside_cascade>>

Next ==
    \/ \E c \in Component(components) : add_component(c)
    \/ ConnectRaises
    \/ ConnectReturnNone
    \/ ConnectBegin
    \/ MatchError
    \/ SelfLoopFold
    \/ CrossMergeFold
    \/ FoldError
    \/ Return

Spec == Init /\ [][Next]_vars

\* a statement of the running loop: connect_circuit is an ordinary sequential
\* function that neither blocks nor waits, so once it is called its next
\* iteration (or its return) is always taken
CascadeStep == MatchError \/ SelfLoopFold \/ CrossMergeFold \/ FoldError \/ Return

SpecCascadeRuns == Init /\ [][Next]_vars /\ WF_vars(CascadeStep)

\* ------------------------------------------------------- notions of the claims
AllNets(comps) == Concat([k \in 1 .. Len(comps) |-> comps[k].nets])

\* the number of (entry, port) slots of cl that hold net id
Occ(id, cl) == Len(Positions(AllNets(cl), id))

\* the cascade has been invoked
Started == pc \in {"loop", "returned", "error"}

\* the cascade is over
Ended == pc \in {"returned", "error"}

\* net_count of a non-empty netlist, 0 for an empty one
Count(comps) == IF net_count(comps) = <<>> THEN 0 ELSE net_count(comps)[1]

\* a valid netlist: every internal id 0 .. net_count-1 is held by exactly two slots
Valid(comps) ==
    /\ comps # <<>>
    /\ \A id \in 0 .. (Count(comps) - 1) : Occ(id, comps) = 2

HasInternal(comps) == Count(comps) >= 1

OnlyExternal(cl) == \A k \in 1 .. Len(cl) : \A x \in Range(cl[k].nets) : x < 0

ExternalIds(comps) == {x \in Range(AllNets(comps)) : x < 0}

Linked(comps, i, j) ==
    \E x \in Range(comps[i].nets) : x >= 0 /\ x \in Range(comps[j].nets)

RECURSIVE Reach(_, _)
Reach(comps, S) ==
    LET T == S \cup {j \in 1 .. Len(comps) : \E i \in S : Linked(comps, i, j)}
    IN  IF T = S THEN S ELSE Reach(comps, T)

\* every component is connected to every other through internal nets
FullyConnected(comps) == comps # <<>> /\ Reach(comps, {1}) = 1 .. Len(comps)

\* ------------------------------------------------------------------- claims
\* C1: once a cascade over a valid netlist has processed all internal ids
\* 0 .. net_count-1, every remaining working entry holds only negative net ids.
C1_TerminalEntriesOnlyExternal ==
    (Started /\ Valid(components) /\ n >= Count(components))
        => OnlyExternal(component_list)

\* C1 witness: a valid netlist with internal nets, all of them folded, whose
\* last merged entry has external ports left
C1_Witness ==
    /\ pc = "loop"
    /\ Valid(components)
    /\ HasInternal(components)
    /\ n = Count(components)
    /\ Len(component_list) < Len(components)
    /\ component_list[Len(component_list)].nets # <<>>

\* C2: for a valid, fully connected netlist the cascade ends with exactly one
\* working entry and returns it as the composite result.
C2_FullyConnectedReturnsOneEntry ==
    (Ended /\ Valid(components) /\ HasInternal(components) /\ FullyConnected(components))
        => /\ pc = "returned"
           /\ Len(component_list) = 1
           /\ result # <<>>
           /\ result[1] = component_list

\* C3: a cascade over two components that share no net id returns two terminal
\* entries, each with only external nets, and the external-component list.
C3_DisconnectedReturnsTwoEntries ==
    (/\ Ended
     /\ Len(components) = 2
     /\ Valid(components)
     /\ Range(components[1].nets) \cap Range(components[2].nets) = {})
        => /\ pc = "returned"
           /\ result # <<>>
           /\ Len(result[1]) = 2
           /\ OnlyExternal(result[1])
           /\ result[2] = get_external_components(components)

\* C4: for every valid netlist, whatever ids its internal nets carry (that is,
\* whatever order they are processed in), the net ids of the final result are,
\* as a set, the negative net ids of the original components.
C4_ResultNetsAreExternalUnion ==
    (Ended /\ Valid(components) /\ HasInternal(components))
        => /\ pc = "returned"
           /\ result # <<>>
           /\ Range(AllNets(result[1])) = ExternalIds(components)

\* C5: every completed fold lowers the total port count of the working entries
\* by exactly 2 and its resulting entry carries the frequency vector of its
\* inputs.
C5_FoldMinusTwoPortsSameFrequency ==
    [][(pc = "loop" /\ pc' = "loop" /\ n' = n + 1)
        => LET m == match_ports(n, component_list)
               a == At(component_list, m.ca)
               b == At(component_list, m.cb)
           IN  /\ TotalPorts(component_list') = TotalPorts(component_list) - 2
               /\ IF m.ca = m.cb
                  THEN At(component_list', m.ca).f = a.f
                  ELSE a.f = b.f => component_list'[Len(component_list')].f = a.f]_vars

\* C6: when the id being processed is held by exactly one slot of the working
\* entries, the cascade aborts and returns nothing.
C6_DanglingAborts ==
    [][(InRange /\ Occ(n, component_list) = 1)
        => (pc' = "error" /\ result' = <<>> /\ component_list' = component_list)]_vars

\* C6 witness: the cascade has aborted on an id that one slot holds
C6_Witness ==
    /\ pc = "error"
    /\ result = <<>>
    /\ n <= nc
    /\ Occ(n, component_list) = 1

\* C7: when the id being processed is held by more than two slots, the cascade
\* aborts and returns nothing; it does not fold two of them and go on.
C7_OverFanoutAborts ==
    [][(InRange /\ Occ(n, component_list) > 2)
        => (pc' = "error" /\ result' = <<>>)]_vars

\* C8: when no slot holds the id being processed, the step is skipped: same
\* working set, no error, on to the next id.
C8_ZeroOccurrencesSkipped ==
    [][(InRange /\ n < nc /\ Occ(n, component_list) = 0)
        => (pc' = "loop" /\ n' = n + 1 /\ component_list' = component_list)]_vars

\* C9: when the two entries about to be merged have different frequency
\* vectors, the cascade fails before any merged entry exists.
C9_FrequencyMismatchAborts ==
    [][(/\ InRange
        /\ ~match_raises(n, component_list)
        /\ match_ports(n, component_list).ca # match_ports(n, component_list).cb
        /\ At(component_list, match_ports(n, component_list).ca).f
             # At(component_list, match_ports(n, component_list).cb).f)
        => (pc' = "error" /\ result' = <<>> /\ Len(component_list') = Len(component_list))]_vars

\* C10: net_count of a netlist without components fails, and a cascade on it
\* aborts: no working entry, no result.
C10_EmptyNetlistAborts ==
    components = <<>>
        => /\ net_count(components) = <<>>
           /\ Started => (pc = "error" /\ result = <<>> /\ component_list = <<>>)

\* C10 witness: the cascade was invoked on the empty netlist
C10_Witness == components = <<>> /\ pc = "error"

\* ------------------------------------------- Netlist objects and their lists
\* The components here are opaque values; what matters is which list object a
\* Netlist holds.  A list object is a record [items, init, log]: its elements,
\* those it had when it was created, and the components add_component appended.
Items == 1 .. MaxAdds

NewList(items) == [items |-> items, init |-> items, log |-> <<>>]

\* def __init__(self, components=[]): self.components = components -- the one
\* list object of the default argument is list 1
Netlist_init_shared_default(components_arg, h) ==
    IF components_arg = 0
    THEN [ref |-> 1, heap |-> IF h = <<>> THEN <<NewList(<<>>)>> ELSE h]
    ELSE [ref |-> components_arg, heap |-> h]

\* Netlist.__init__: self.components = [] if components is None else components
\* (components_arg: 0 for None, otherwise the list object passed); the list
\* object the new Netlist holds and the heap after the call
Netlist_init(components_arg, h) ==
    IF components_arg = 0
    THEN [ref |-> Len(h) + 1, heap |-> Append(h, NewList(<<>>))]
    ELSE [ref |-> components_arg, heap |-> h]

\* the caller creates a list, empty or with one component in it
CallerList(items) ==
    /\ Len(heap) < MaxLists
    /\ heap' = Append(heap, NewList(items))
    /\ UNCHANGED <<netlists, cascade_vars, str_vars, parser_vars>>

\* Netlist() or Netlist(components)
NewNetlist(components_arg) ==
    /\ Len(netlists) < MaxNetlists
    /\ components_arg = 0 => Len(heap) < MaxLists
    /\ LET r == Netlist_init(components_arg, heap)
       IN  /\ heap' = r.heap
           /\ netlists' = Append(netlists, [ref |-> r.ref, fresh |-> components_arg = 0])
    /\ UNCHANGED <<cascade_vars, str_vars, parser_vars>>

TotalAdds == Len(Concat([r \in 1 .. Len(heap) |-> heap[r].log]))

\* Netlist.add_component on Netlist object o
AddTo(o, component) ==
    /\ TotalAdds < MaxAdds
    /\ LET r == netlists[o].ref
       IN  heap' = [heap EXCEPT ![r].items = Append(@, component),
                                ![r].log = Append(@, component)]
    /\ UNCHANGED <<netlists, cascade_vars, str_vars, parser_vars>>

NextNetlist ==
    \/ \E items \in {<<>>, <<1>>} : CallerList(items)
    \/ \E a \in 0 .. Len(heap) : NewNetlist(a)
    \/ \E o \in 1 .. Len(netlists) : \E c \in Items : AddTo(o, c)

SpecNetlist == Init /\ [][NextNetlist]_vars

\* ------------------------------------------------- numeric literals (str2float)
\* simphony.tools.str2float is called by SpiceVisitor.visit_number and by
\* tests/test_tools.py.  A text is a sequence of one-character strings; a value
\* is the exact decimal m * 10^e, kept as [m, e] with m not divisible by 10
\* (and [0, 0] for zero), so two records are equal exactly when the numbers are.
\* Binary rounding of the float type is not part of the model.
Digits == {"0", "1", "2", "3", "4", "5", "6", "7", "8", "9"}
DigitVal ==
    ("0" :> 0) @@ ("1" :> 1) @@ ("2" :> 2) @@ ("3" :> 3) @@ ("4" :> 4) @@
    ("5" :> 5) @@ ("6" :> 6) @@ ("7" :> 7) @@ ("8" :> 8) @@ ("9" :> 9)
Signs == {"-", "+"}
\* the letters of [a-zA-Z] the model types: the ten of the suffix table, the
\* exponent markers and one letter that is in neither
Letters == {"f", "p", "n", "u", "m", "c", "k", "M", "G", "T", "e", "E", "o"}
\* the characters typed into a text
Chars == {"1", "5", ".", "-", "e", "E", "m", "M", "k", "o"}

Front(s) == SubSeq(s, 1, Len(s) - 1)
Last(s) == s[Len(s)]
AllDigits(s) == \A i \in 1 .. Len(s) : s[i] \in Digits
\* the first position of s holding a character of S, 0 when there is none
FirstIndex(s, S) ==
    LET at == {i \in 1 .. Len(s) : s[i] \in S}
    IN  IF at = {} THEN 0 ELSE CHOOSE i \in at : \A j \in at : i <= j

RECURSIVE DigitsVal(_)
DigitsVal(s) ==
    IF s = <<>> THEN 0 ELSE 10 * DigitsVal(Front(s)) + DigitVal[Last(s)]

RECURSIVE Norm(_, _)
Norm(m, e) ==
    IF m = 0 THEN [m |-> 0, e |-> 0]
    ELSE IF m % 10 = 0 THEN Norm(m \div 10, e + 1)
    ELSE [m |-> m, e |-> e]

\* v * 10^k
Scale(v, k) == Norm(v.m, v.e + k)

\* [sign] digits+ : <<the integer>>, or <<>> when s is not of that form
SignedInt(s) ==
    LET u == IF s # <<>> /\ s[1] \in Signs THEN Tail(s) ELSE s
    IN  IF u = <<>> \/ ~AllDigits(u) THEN <<>>
        ELSE <<(IF s[1] = "-" THEN -1 ELSE 1) * DigitsVal(u)>>

\* float(text) on sign, digits, one optional point and an optional e/E
\* exponent: <<value>>, or <<>> for ValueError
float(t) ==
    LET u    == IF t # <<>> /\ t[1] \in Signs THEN Tail(t) ELSE t
        sgn  == IF t # <<>> /\ t[1] = "-" THEN -1 ELSE 1
        k    == FirstIndex(u, {"e", "E"})
        mant == IF k = 0 THEN u ELSE SubSeq(u, 1, k - 1)
        ex   == IF k = 0 THEN <<0>> ELSE SignedInt(SubSeq(u, k + 1, Len(u)))
        d    == FirstIndex(mant, {"."})
        ip   == IF d = 0 THEN mant ELSE SubSeq(mant, 1, d - 1)
        fp   == IF d = 0 THEN <<>> ELSE SubSeq(mant, d + 1, Len(mant))
    IN  IF ex = <<>> \/ ~AllDigits(ip) \/ ~AllDigits(fp) \/ ip \o fp = <<>>
        THEN <<>>
        ELSE <<Norm(sgn * DigitsVal(ip \o fp), ex[1] - Len(fp))>>

\* mutant of SuffixTable: the table read without regard to case
SuffixTable_caseless ==
    ("f" :> -15) @@ ("p" :> -12) @@ ("n" :> -9) @@ ("u" :> -6) @@
    ("m" :> -3) @@ ("c" :> -2) @@ ("k" :> 3) @@ ("M" :> -3) @@
    ("G" :> 9) @@ ("T" :> 12)

\* suffix letter |-> the power of ten of its multiplier
SuffixTable ==
    ("f" :> -15) @@ ("p" :> -12) @@ ("n" :> -9) @@ ("u" :> -6) @@
    ("m" :> -3) @@ ("c" :> -2) @@ ("k" :> 3) @@ ("M" :> 6) @@
    ("G" :> 9) @@ ("T" :> 12)

\* mutant of str2float: a trailing letter outside the table is dropped
str2float_lenient(t) ==
    IF t # <<>> /\ Last(t) \in DOMAIN SuffixTable
    THEN LET b == float(Front(t))
         IN  IF b = <<>> THEN <<>> ELSE <<Scale(b[1], SuffixTable[Last(t)])>>
    ELSE IF t # <<>> /\ Last(t) \in Letters THEN float(Front(t))
    ELSE float(t)

\* str2float(num): <<value>>, or <<>> for ValueError
str2float(t) ==
    IF t # <<>> /\ Last(t) \in DOMAIN SuffixTable
    THEN LET b == float(Front(t))
         IN  IF b = <<>> THEN <<>> ELSE <<Scale(b[1], SuffixTable[Last(t)])>>
    ELSE float(t)

\* the calls of tests/test_tools.py: the text and the value asserted, <<>> for
\* pytest.raises(ValueError)
TestVectors ==
    { [text |-> <<"2", ".", "5", "3">>,                     val |-> <<[m |-> 253, e |-> -2]>>],
      [text |-> <<"1", "7", ".", "8", "3", "f">>,           val |-> <<[m |-> 1783, e |-> -17]>>],
      [text |-> <<"-", "1", "5", ".", "3", "7", "p">>,      val |-> <<[m |-> -1537, e |-> -14]>>],
      [text |-> <<"1", "5", "8", ".", "7", "8", "4", "n">>, val |-> <<[m |-> 158784, e |-> -12]>>],
      [text |-> <<"1", "5", ".", "2", "6", "u">>,           val |-> <<[m |-> 1526, e |-> -8]>>],
      [text |-> <<"-", "1", "5", ".", "7", "8", "1", "m">>, val |-> <<[m |-> -15781, e |-> -6]>>],
      [text |-> <<"1", "4", ".", "5", "c">>,                val |-> <<[m |-> 145, e |-> -3]>>],
      [text |-> <<"-", "0", ".", "2", "5", "7", "k">>,      val |-> <<[m |-> -257, e |-> 0]>>],
      [text |-> <<"1", "5", ".", "2", "6", "M">>,           val |-> <<[m |-> 1526, e |-> 4]>>],
      [text |-> <<"-", "8", ".", "7", "3", "G">>,           val |-> <<[m |-> -873, e |-> 7]>>],
      [text |-> <<"1", "8", "3", ".", "4", "T">>,           val |-> <<[m |-> 1834, e |-> 11]>>],
      [text |-> <<"1", "5", ".", "2", "e", "-", "6">>,      val |-> <<[m |-> 152, e |-> -7]>>],
      [text |-> <<"0", ".", "4", "E", "6">>,                val |-> <<[m |-> 4, e |-> 5]>>],
      [text |-> <<"1", "7", ".", "3", "o">>,                val |-> <<>>],
      [text |-> <<"1", "7", ".", "3", ".", "5", "e", "7">>, val |-> <<>>] }

\* [-+]?[0-9]+[.]?[0-9]* : the part of the number pattern before the exponent
\* or the letter
NumBody(b) ==
    LET u  == IF b # <<>> /\ b[1] \in Signs THEN Tail(b) ELSE b
        d  == FirstIndex(u, {"."})
        ip == IF d = 0 THEN u ELSE SubSeq(u, 1, d - 1)
        fp == IF d = 0 THEN <<>> ELSE SubSeq(u, d + 1, Len(u))
    IN  ip # <<>> /\ AllDigits(ip) /\ AllDigits(fp)

\* the position of the e/E of an exponent [eE][-+]?[0-9]+ after a NumBody, 0
\* when t has no such form
ExponentAt(t) ==
    LET k == FirstIndex(t, {"e", "E"})
    IN  IF k # 0 /\ NumBody(SubSeq(t, 1, k - 1))
              /\ SignedInt(SubSeq(t, k + 1, Len(t))) # <<>>
        THEN k ELSE 0

\* the number pattern of the grammar matches the whole of t
IsNumber(t) ==
    \/ NumBody(t)
    \/ ExponentAt(t) # 0
    \/ t # <<>> /\ Last(t) \in Letters /\ NumBody(Front(t))

\* a text is typed one character at a time
Type(c) ==
    /\ spc = "typing"
    /\ Len(text) < MaxLen
    /\ text' = Append(text, c)
    /\ UNCHANGED <<spc, sres, cascade_vars, heap_vars, parser_vars>>

\* or is one of the texts of the tests
Load(v) ==
    /\ spc = "typing"
    /\ text = <<>>
    /\ text' = v.text
    /\ UNCHANGED <<spc, sres, cascade_vars, heap_vars, parser_vars>>

\* str2float(text) returns a value
CallReturns ==
    /\ spc = "typing"
    /\ str2float(text) # <<>>
    /\ spc' = "returned"
    /\ sres' = str2float(text)[1]
    /\ UNCHANGED <<text, cascade_vars, heap_vars, parser_vars>>

\* str2float(text) raises ValueError
CallRaises ==
    /\ spc = "typing"
    /\ str2float(text) = <<>>
    /\ spc' = "raised"
    /\ UNCHANGED <<text, sres, cascade_vars, heap_vars, parser_vars>>

NextStr2Float ==
    \/ \E c \in Chars : Type(c)
    \/ \E v \in TestVectors : Load(v)
    \/ CallReturns
    \/ CallRaises

SpecStr2Float == Init /\ [][NextStr2Float]_vars

\* ------------------------------------------------ .ona options (visit_ona)
\* _dlist_insert with the copy loop left out
dlist_insert_nocopy(dlist, index, element) ==
    IF index >= 0 /\ index < Len(dlist)
    THEN <<[dlist EXCEPT ![index + 1] = element]>>
    ELSE IF index < 0 /\ -index <= Len(dlist)
    THEN <<[dlist EXCEPT ![Len(dlist) + index + 1] = element]>>
    ELSE IF index < 0 THEN <<>>
    ELSE <<[i \in 1 .. (index + 1) |-> IF i = index + 1 THEN element ELSE None]>>

\* _dlist_insert(dlist, index, element): <<the list returned>>, or <<>> when
\* the IndexError of the except branch escapes.  dlist[index] = element takes
\* a negative index from the end; outside -len .. len-1 it raises IndexError
\* and the except branch builds [None] * (index + 1), copies dlist into it and
\* assigns new[index], which raises again when index + 1 <= 0.
dlist_insert(dlist, index, element) ==
    IF index >= 0 /\ index < Len(dlist)
    THEN <<[dlist EXCEPT ![index + 1] = element]>>
    ELSE IF index < 0 /\ -index <= Len(dlist)
    THEN <<[dlist EXCEPT ![Len(dlist) + index + 1] = element]>>
    ELSE IF index < 0 THEN <<>>
    ELSE <<[i \in 1 .. (index + 1) |->
              IF i = index + 1 THEN element
              ELSE IF i <= Len(dlist) THEN dlist[i]
              ELSE None]>>

\* what the branch `if "order" in option` stores for name: <<the new entry of
\* ona["params"]>>, or <<>> when it raises.  A KeyError starts from []; an
\* entry that is no list (stored by an option without order) makes
\* dlist[index] = element raise TypeError, which nothing catches.
ordered_insert(ps, nm, order, value) ==
    LET l == IF ps[nm].kind = "absent" THEN <<>> ELSE ps[nm].list
        r == dlist_insert(l, order - 1, value)
    IN  IF ps[nm].kind = "scalar" \/ r = <<>> THEN <<>>
        ELSE <<[kind |-> "list", scalar |-> None, list |-> r[1]]>>

Option(nm, ordered, order, value) ==
    [name |-> nm, ordered |-> ordered, order |-> order, value |-> value]

\* an option name(k)=value is processed and stored
OrderedOption(nm, k, v) ==
    /\ opc = "visiting"
    /\ Len(olog) < MaxOptions
    /\ ordered_insert(params, nm, k, v) # <<>>
    /\ params' = [params EXCEPT ![nm] = ordered_insert(params, nm, k, v)[1]]
    /\ olog' = Append(olog, Option(nm, TRUE, k, v))
    /\ UNCHANGED <<opc, load_vars, cascade_vars, heap_vars, str_vars>>

\* an option name(k)=value raises out of visit_ona
OptionRaises(nm, k, v) ==
    /\ opc = "visiting"
    /\ Len(olog) < MaxOptions
    /\ ordered_insert(params, nm, k, v) = <<>>
    /\ opc' = "raised"
    /\ olog' = Append(olog, Option(nm, TRUE, k, v))
    /\ UNCHANGED <<params, load_vars, cascade_vars, heap_vars, str_vars>>

\* an option name=value: ona["params"][name] = value
PlainOption(nm, v) ==
    /\ opc = "visiting"
    /\ Len(olog) < MaxOptions
    /\ params' = [params EXCEPT ![nm] = [kind |-> "scalar", scalar |-> v, list |-> <<>>]]
    /\ olog' = Append(olog, Option(nm, FALSE, 0, v))
    /\ UNCHANGED <<opc, load_vars, cascade_vars, heap_vars, str_vars>>

\* return Directives.ONA, ona
OnaReturn ==
    /\ opc = "visiting"
    /\ opc' = "returned"
    /\ UNCHANGED <<params, olog, load_vars, cascade_vars, heap_vars, str_vars>>

NextOna ==
    \/ \E nm \in Names, k \in 0 .. MaxOrder, v \in Values : OrderedOption(nm, k, v)
    \/ \E nm \in Names, k \in 0 .. MaxOrder, v \in Values : OptionRaises(nm, k, v)
    \/ \E nm \in Names, v \in Values : PlainOption(nm, v)
    \/ OnaReturn

SpecOna == Init /\ [][NextOna]_vars

\* ------------------------------------------- load_spi_from_file and .INCLUDE
\* The directory part of a path, as os.path.split gives it: <<>> for none,
\* <<d>> for the directory d; <<0>> names a directory that does not exist.
Paths == {<<>>} \cup {<<d>> : d \in 0 .. NumDirs}

\* os.chdir(path) raises (FileNotFoundError)
chdir_raises(path) == path # <<>> /\ path[1] \notin Dirs

\* the working directory after `if path != "": os.chdir(path)`
chdir(dir, path) == IF path = <<>> THEN dir ELSE path[1]

\* the frame of a call that has done its chdir and is about to open the file
Frame(saved) == [cwd |-> saved, at |-> "open"]

Top == stack[Len(stack)]

\* an exception leaves every running call: no frame handles it and none
\* restores the directory on the way out
Propagate ==
    /\ stack' = <<>>
    /\ lpc' = "raised"
    /\ UNCHANGED <<cwd, cwd0, ona_vars, cascade_vars, heap_vars, str_vars>>

\* load_spi_from_file(path) is called from outside: cwd = os.getcwd(), chdir
Call(path) ==
    /\ lpc # "running"
    /\ ~chdir_raises(path)
    /\ cwd0' = cwd
    /\ stack' = <<Frame(cwd)>>
    /\ cwd' = chdir(cwd, path)
    /\ lpc' = "running"
    /\ UNCHANGED <<ona_vars, cascade_vars, heap_vars, str_vars>>

\* the same call when os.chdir(path) raises
CallChdirRaises(path) ==
    /\ lpc # "running"
    /\ chdir_raises(path)
    /\ cwd0' = cwd
    /\ lpc' = "raised"
    /\ UNCHANGED <<cwd, stack, ona_vars, cascade_vars, heap_vars, str_vars>>

\* open(filename, "r") and f.read() succeed
Opened ==
    /\ lpc = "running"
    /\ Top.at = "open"
    /\ stack' = [stack EXCEPT ![Len(stack)].at = "parse"]
    /\ UNCHANGED <<cwd, cwd0, lpc, ona_vars, cascade_vars, heap_vars, str_vars>>

\* open(filename, "r") raises: the file is missing
OpenRaises ==
    /\ lpc = "running"
    /\ Top.at = "open"
    /\ Propagate

\* load_spi_from_string raises: the text does not parse
ParseRaises ==
    /\ lpc = "running"
    /\ Top.at = "parse"
    /\ Propagate

\* visit_include: load_spi_from_file(quoted) is called while parsing
Include(path) ==
    /\ lpc = "running"
    /\ Top.at = "parse"
    /\ Len(stack) < MaxDepth
    /\ ~chdir_raises(path)
    /\ stack' = Append(stack, Frame(cwd))
    /\ cwd' = chdir(cwd, path)
    /\ UNCHANGED <<cwd0, lpc, ona_vars, cascade_vars, heap_vars, str_vars>>

\* the same when the os.chdir of the nested call raises
IncludeChdirRaises(path) ==
    /\ lpc = "running"
    /\ Top.at = "parse"
    /\ Len(stack) < MaxDepth
    /\ chdir_raises(path)
    /\ Propagate

\* os.chdir(cwd); return res
LoadReturn ==
    /\ lpc = "running"
    /\ Top.at = "parse"
    /\ cwd' = Top.cwd
    /\ stack' = SubSeq(stack, 1, Len(stack) - 1)
    /\ lpc' = IF Len(stack) = 1 THEN "returned" ELSE "running"
    /\ UNCHANGED <<cwd0, ona_vars, cascade_vars, heap_vars, str_vars>>

NextLoad ==
    \/ \E path \in Paths : Call(path)
    \/ \E path \in Paths : CallChdirRaises(path)
    \/ Opened
    \/ OpenRaises
    \/ ParseRaises
    \/ \E path \in Paths : Include(path)
    \/ \E path \in Paths : IncludeChdirRaises(path)
    \/ LoadReturn

SpecLoad == Init /\ [][NextLoad]_vars

\* ----------------------------------------------- notions of the claims C11-C20
\* the elements of s at the 1-based positions not in drop, in their order
Remaining(s, drop) ==
    LET keep == {k \in 1 .. Len(s) : k \notin drop}
    IN  [j \in 1 .. Cardinality(keep) |->
            s[CHOOSE k \in keep : Cardinality({i \in keep : i <= k}) = j]]

InternalIds(comps) == {x \in Range(AllNets(comps)) : x >= 0}

\* the positions of the components that hold a negative net id
ExternalIndices(comps) ==
    {i \in 1 .. Len(comps) : \E x \in Range(comps[i].nets) : x < 0}

\* this iteration is a cross-merge fold that ran to its end
CrossStep ==
    /\ InRange
    /\ ~match_raises(n, component_list)
    /\ match_ports(n, component_list).ca # match_ports(n, component_list).cb
    /\ pc' = "loop"
    /\ n' = n + 1

\* this iteration is a self-loop fold that ran to its end
SelfStep ==
    /\ InRange
    /\ ~match_raises(n, component_list)
    /\ match_ports(n, component_list).ca = match_ports(n, component_list).cb
    /\ pc' = "loop"
    /\ n' = n + 1

\* C11: for every non-empty netlist, after any sequence of adds, net_count is
\* the largest internal (non-negative) net id plus 1: the number of internal
\* nets when the ids are dense from 0 (so 0 when there is no internal net).
C11_NetCountIsMaxInternalPlusOne ==
    AllNets(components) # <<>>
        => net_count(components) =
             <<IF InternalIds(components) = {} THEN 0
               ELSE SetMax(InternalIds(components)) + 1>>

\* C12: external_components returns exactly the components with a negative net
\* id, each once, in the order of the netlist, and leaves the netlist as it is.
C12_ExternalComponentsFilterInOrder ==
    /\ [](LET ext == get_external_components(components)
              idx == ExternalIndices(components)
          IN  /\ Len(ext) = Cardinality(idx)
              /\ ext = Remaining(components, (1 .. Len(components)) \ idx))
    /\ [][(pc = "loop" /\ pc' = "returned")
            => /\ components' = components
               /\ result'[2] = Remaining(components,
                                   (1 .. Len(components)) \ ExternalIndices(components))]_vars

\* C12 witness: a netlist whose first component has no external net and which
\* holds two components that have one
C12_Witness ==
    /\ Len(components) = 3
    /\ 1 \notin ExternalIndices(components)
    /\ Len(get_external_components(components)) = 2

\* C14: the cascade, completed or aborted, leaves the net list of every
\* component of the netlist as it was.
C14_CascadeLeavesComponents ==
    [][pc' # "build" => components' = components]_vars

\* C14 witness: a cascade that merged two entries and then aborted
C14_Witness ==
    /\ pc = "error"
    /\ n >= 1
    /\ Len(component_list) < Len(components)

\* C18: a cross-merge of entry A at port ia with entry B at port ib appends an
\* entry whose nets are A's without position ia followed by B's without
\* position ib, nA + nB - 2 of them.
C18_CrossMergeNets ==
    [][CrossStep
        => LET m   == match_ports(n, component_list)
               a   == At(component_list, m.ca)
               b   == At(component_list, m.cb)
               new == component_list'[Len(component_list')]
           IN  /\ new.nets = Remaining(a.nets, {m.ia + 1}) \o Remaining(b.nets, {m.ib + 1})
               /\ Len(new.nets) = Len(a.nets) + Len(b.nets) - 2]_vars

\* C18 witness: a cross-merge has left an entry with ports of both sides
C18_Witness ==
    /\ pc = "loop"
    /\ n = 1
    /\ Len(component_list) < Len(components)
    /\ \A k \in 1 .. Len(components) : Len(components[k].nets) = 2
    /\ Cardinality(Range(component_list[Len(component_list)].nets)) = 2

\* C19: a cross-merge removes exactly its two source entries, wherever they
\* stand, and inserts one entry; the other entries stay, unchanged and in
\* order, and the number of entries drops by 1.
C19_CrossMergeFrame ==
    [][CrossStep
        => LET m == match_ports(n, component_list)
           IN  /\ Len(component_list') = Len(component_list) - 1
               /\ SubSeq(component_list', 1, Len(component_list') - 1)
                    = Remaining(component_list, {m.ca + 1, m.cb + 1})]_vars

\* C19 witness: a cross-merge has happened next to an entry it did not touch
C19_Witness ==
    /\ pc = "loop"
    /\ n = 1
    /\ Len(components) = 3
    /\ Len(component_list) = 2

\* C20: a self-loop fold on the ports ia and ib of an entry leaves that entry's
\* nets without exactly those two positions, the rest in order; no other entry
\* changes and the number of entries stays.  The matcher only ever yields
\* ia < ib, so the second conjunct applies the branch to both orders.
C20_SelfLoopNets ==
    /\ [][SelfStep
          => LET m == match_ports(n, component_list)
             IN  /\ m.ia # m.ib
                 /\ Len(component_list') = Len(component_list)
                 /\ At(component_list', m.ca).nets
                      = Remaining(At(component_list, m.ca).nets, {m.ia + 1, m.ib + 1})
                 /\ \A k \in 1 .. Len(component_list) :
                      k # m.ca + 1 => component_list'[k] = component_list[k]]_vars
    \* the branch itself, on every entry and every two positions, in either order
    /\ [](\A k \in 1 .. Len(component_list) :
            \A i, j \in 0 .. (Len(component_list[k].nets) - 1) :
              i # j =>
                LET r == self_loop_fold(component_list, k - 1, i, j)
                IN  /\ r.ok
                    /\ r.cl[k].nets = Remaining(component_list[k].nets, {i + 1, j + 1})
                    /\ \A h \in 1 .. Len(component_list) :
                         h # k => r.cl[h] = component_list[h])

\* C20 witness: a self-loop fold has left ports on its entry, next to another
\* entry
C20_Witness ==
    /\ pc = "loop"
    /\ n = 1
    /\ Len(component_list) = Len(components)
    /\ Len(component_list) >= 2
    /\ \E k \in 1 .. Len(component_list) :
         /\ component_list[k].nets # <<>>
         /\ Len(component_list[k].nets) = Len(components[k].nets) - 2

\* every collection is its initial content followed by the components added
CollectionsAreInitThenAdds ==
    \A r \in 1 .. Len(heap) : heap[r].items = heap[r].init \o heap[r].log

\* a step that changes a list object appends one component to one of them
AddOnlyAppends ==
    (netlists' = netlists /\ Len(heap') = Len(heap) /\ heap' # heap)
        => \E r \in 1 .. Len(heap) :
             /\ \E c \in Items : heap'[r].items = Append(heap[r].items, c)
             /\ \A q \in 1 .. Len(heap) : q # r => heap'[q] = heap[q]

BodyValue(b) ==
    LET u == IF b[1] \in Signs THEN Tail(b) ELSE b
        d == FirstIndex(u, {"."})
        ds == IF d = 0 THEN u ELSE SubSeq(u, 1, d - 1) \o SubSeq(u, d + 1, Len(u))
    IN  Norm((IF b[1] = "-" THEN -1 ELSE 1) * DigitsVal(ds),
             IF d = 0 THEN 0 ELSE d - Len(u))

\* the table as the claim gives it: letter |-> power of ten
ClaimedTable ==
    ("f" :> -15) @@ ("p" :> -12) @@ ("n" :> -9) @@ ("u" :> -6) @@
    ("m" :> -3) @@ ("c" :> -2) @@ ("k" :> 3) @@ ("M" :> 6) @@
    ("G" :> 9) @@ ("T" :> 12)

\* C16: once str2float was called on a number of the grammar, (a) a text ending
\* in a letter of the table f p n u m c k M G T returned the value of the text
\* before the letter times the letter's power of ten, m and M being different
\* letters; (b) a text with no letter returned its plain decimal value; (c) a
\* text with an e/E exponent returned mantissa times ten to the exponent; and
\* every call of the tests returned the value the test asserts.
C16_SuffixedLiteralsScale ==
    /\ \A v \in TestVectors :
         (spc # "typing" /\ text = v.text /\ v.val # <<>>)
            => (spc = "returned" /\ sres = v.val[1])
    /\ (spc # "typing" /\ IsNumber(text)) =>
         LET k == ExponentAt(text)
         IN  IF Last(text) \in DOMAIN ClaimedTable
             THEN /\ spc = "returned"
                  /\ sres = Scale(BodyValue(Front(text)), ClaimedTable[Last(text)])
             ELSE IF NumBody(text)
             THEN spc = "returned" /\ sres = BodyValue(text)
             ELSE IF k # 0
             THEN /\ spc = "returned"
                  /\ sres = Scale(BodyValue(SubSeq(text, 1, k - 1)),
                                  SignedInt(SubSeq(text, k + 1, Len(text)))[1])
             ELSE TRUE

\* C16 witness: a typed number ending in M was parsed and came back a million
\* times its base, not a thousandth
C16_Witness ==
    /\ spc = "returned"
    /\ Len(text) <= MaxLen
    /\ IsNumber(text)
    /\ Last(text) = "M"
    /\ FirstIndex(text, {"."}) # 0
    /\ sres = Scale(BodyValue(Front(text)), 6)
    /\ sres # Scale(BodyValue(Front(text)), -3)

\* C17: a call of str2float on a text whose last character is a letter outside
\* the suffix table, or that holds more than one decimal point, raised
\* ValueError and returned nothing.
C17_UnknownSuffixOrTwoPointsRaises ==
    (/\ spc # "typing"
     /\ \/ text # <<>> /\ Last(text) \in Letters \ DOMAIN ClaimedTable
        \/ Cardinality({i \in 1 .. Len(text) : text[i] = "."}) > 1)
        => spc = "raised"

\* C17 witness: a number followed by the letter o was rejected
C17_Witness ==
    /\ spc = "raised"
    /\ text # <<>>
    /\ Last(text) = "o"
    /\ NumBody(Front(text))

\* ------------------------------------------------------------ claims C21-C25
\* every working entry has as many nets as its matrix has rows and columns
EntriesSquare ==
    \A k \in 1 .. Len(component_list) :
        Len(component_list[k].nets) = component_list[k].s

MatchAttempt == pc = "loop" /\ (pc' = "error" \/ n' = n + 1)

\* C22: every iteration of the cascade matches an id of 0 .. net_count-1, the
\* ids are taken one by one in increasing order starting at 0, and no iteration
\* matches an id equal to or greater than net_count.
C22_ProcessesOnlyIdsBelowNetCount ==
    /\ [](pc = "loop" => n >= 0)
    /\ [][(pc = "build" /\ pc' = "loop") => n' = 0]_vars
    /\ [][(pc = "loop" /\ n' # n) => n' = n + 1]_vars
    /\ [][MatchAttempt => n < nc]_vars

\* the run ended in the terminal state: it returned and no working entry holds
\* an internal id
EndedTerminal ==
    /\ pc = "returned"
    /\ \A k \in 1 .. Len(component_list) :
         \A x \in Range(component_list[k].nets) : x < 0

\* the run aborted at the first invalid net: an id of 0 .. net_count-1 that is
\* not held by exactly two slots, all smaller ids being held by exactly two
EndedAtFirstInvalid ==
    /\ pc = "error"
    /\ n \in 0 .. (Count(components) - 1)
    /\ Occ(n, components) # 2
    /\ \A id \in 0 .. (n - 1) : Occ(id, components) = 2

\* C23: every cascade run over a non-empty netlist ends; it ends either
\* returned with every internal id consumed or aborted at the first id that is
\* not held by exactly two slots; and once it has aborted nothing of the
\* cascade changes any more.
C23_RunEndsTerminalOrAtFirstInvalid ==
    /\ [](Ended /\ components # <<>> => EndedTerminal \/ EndedAtFirstInvalid)
    /\ [][pc = "error" => UNCHANGED cascade_vars]_vars
    /\ (pc = "loop" ~> Ended)

\* the options of olog that name nm, in textual order
OptionsOf(nm) == SelectSeq(olog, LAMBDA o : o.name = nm)

\* every option of nm so far was written nm(k)=value with k >= 1
OnlyOrdered(nm) ==
    /\ OptionsOf(nm) # <<>>
    /\ \A i \in 1 .. Len(OptionsOf(nm)) :
         OptionsOf(nm)[i].ordered /\ OptionsOf(nm)[i].order >= 1

\* the largest k among the options of nm
LargestOrder(nm) == SetMax({OptionsOf(nm)[i].order : i \in 1 .. Len(OptionsOf(nm))})

\* the value of the last option nm(k)=value, None when there is none
LastValueAt(nm, k) ==
    LET at == {i \in 1 .. Len(OptionsOf(nm)) : OptionsOf(nm)[i].order = k}
    IN  IF at = {} THEN None ELSE OptionsOf(nm)[SetMax(at)].value

\* C24: for a name whose options were all written name(k)=value with k >= 1,
\* in whatever order: no option raised, the parameter list of the name is as
\* long as the largest k seen, holds at index k-1 the value last given for k
\* and None where no k was given; and a step that stores one more such option
\* leaves the value at every other index as it was.
C24_OrderedOptionsFillList ==
    /\ [](\A nm \in Names :
            OnlyOrdered(nm) =>
              /\ opc = "raised" => olog[Len(olog)].name # nm
              /\ params[nm].kind = "list"
              /\ Len(params[nm].list) = LargestOrder(nm)
              /\ \A k \in 1 .. LargestOrder(nm) :
                   params[nm].list[k] = LastValueAt(nm, k))
    /\ [][\A nm \in Names :
            (OnlyOrdered(nm) /\ OnlyOrdered(nm)' /\ params'[nm] # params[nm])
              => \A i \in 1 .. Len(params[nm].list) :
                   i # olog'[Len(olog')].order
                     => params'[nm].list[i] = params[nm].list[i]]_vars

\* C24 witness: the options name(3), name(1), name(3) were given in that order;
\* the list has three places, the second is None, the third holds the later
\* value and the first the value given for 1
C24_Witness ==
    /\ opc = "returned"
    /\ \E nm \in Names :
         /\ OnlyOrdered(nm)
         /\ Len(OptionsOf(nm)) = 3
         /\ OptionsOf(nm)[1].order = 3
         /\ OptionsOf(nm)[2].order = 1
         /\ OptionsOf(nm)[3].order = 3
         /\ OptionsOf(nm)[1].value # OptionsOf(nm)[3].value
         /\ params[nm].list = <<OptionsOf(nm)[2].value, None, OptionsOf(nm)[3].value>>

\* C25: whenever load_spi_from_file has finished, by returning or by raising,
\* the current working directory is the one the process was in when the call
\* was made.
C25_LoadRestoresWorkingDirectory ==
    lpc \in {"returned", "raised"} => cwd = cwd0

====
